---- MODULE Spec2Model ----
\* Model of the residence-status dashboard client (static/js/app.js):
\* the in-memory record table with its filter / search / sort handlers, the
\* unsaved-change tracker and the asynchronous handlers that talk to the backend.
\* The calendar page (static/js/calendar.js) has its own variables and handlers:
\* month navigation, the /api/calendar requests and the rendering of the grid.
\*
\* JavaScript strings are modelled as sequences of UTF-16 code units, so that
\* toLowerCase, trim, includes, parseInt and the relational operators are
\* computed rather than assumed.  A nullable number is <<>> (null) or <<n>>.
\* Record fields carry romanised names, the source names being Japanese:
\*   tantoushaCode = 担当者コード    shimei1 = 氏名１     shimei2 = 氏名２
\*   zairyuShikaku = 在留資格        kokuseki = 国籍
\*   manryoMadeNissu = 満了年月日までの日数   manryoNissuValue = 満了日数_値
\*   kigenLevel = 期限レベル分類     kigen1Status.. = 期限日1_状態 ..
EXTENDS Integers, Sequences, FiniteSets, TLC

VARIABLES
    allData,            \* app.js:4   the Dataset as last loaded
    filteredData,       \* app.js:5   the visible sequence
    filteredIsAll,      \* TRUE when filteredData and allData are the same array object
    currentFilter,      \* app.js:6
    currentSort,        \* app.js:7   [column, ascending]
    searchInput,        \* value of the #searchInput element
    hasUnsavedChanges,  \* app.js:8
    lastChangeTimestamp,\* app.js:9   <<>> or <<ms>>
    lastExportedAt,     \* app.js:10  <<>> or <<ms>>
    focus,              \* the form field focused by the last validation failure
    now,                \* the wall clock, Date.now(), in ms
    srvData,            \* backend: the stored records
    srvVersion,         \* backend: number of mutations applied so far
    srvLastExport,      \* backend: last_exported_at, <<>> or <<seconds>>
    srvExportVersion,   \* backend: srvVersion captured by the last export
    pagePc,             \* DOMContentLoaded: [data, summary] fetch positions
    refreshPc,          \* refreshData position
    submitPc,           \* handleFormSubmit position
    submitReq,          \* the add / update request in flight
    deletePc,           \* deleteRow position
    deleteReq,          \* the delete request in flight
    exportPc,           \* exportProcessedData position
    exportResp,         \* the export response in flight
    mutDoneVersion,     \* srvVersion of the newest mutation whose handler completed
    lastOp,             \* the view handler that ran last (sortTableAgain: a second
                        \* sortTable in a row on the same column)
    trip,               \* progress of an all -> f -> all filter round trip
    lastSummary,        \* the tracker's last event: "dirty" / "clean" when it was a summary
                        \* received in that state, "failed" for a summary that was not
                        \* received, "none" for a mark or a reset
    uploadPc,           \* handleFileUpload position
    failure,            \* the request whose failure the last step handled, or "none"
    headerParams,       \* the filename parameters the backend put into Content-Disposition
    disposition,        \* app.js:359  the Content-Disposition header of the export response
    filename,           \* app.js:360  what extractFilenameFromDisposition returned
    today,              \* new Date() on the calendar page: [year, month]
    calendarPc,         \* calendar.js:9  "init" until DOMContentLoaded has run
    currentYear,        \* calendar.js:5
    currentMonth,       \* calendar.js:6
    calendarData,       \* calendar.js:4  <<>> for {}, or <<[year, month]>>: the month
                        \* whose projection the object holds
    calendarBody,       \* the cells of #calendarBody, row by row
    calendarReqs,       \* the /api/calendar requests in flight, oldest first
    lastRequest,        \* outcome of the /api/calendar request issued last
    navCount,           \* calendar navigations so far
    navLog              \* the last two calendar navigations, newest last

vars == <<allData, filteredData, filteredIsAll, currentFilter, currentSort,
          searchInput, hasUnsavedChanges, lastChangeTimestamp, lastExportedAt,
          focus, now, srvData, srvVersion, srvLastExport, srvExportVersion,
          pagePc, refreshPc, submitPc, submitReq, deletePc, deleteReq,
          exportPc, exportResp, mutDoneVersion, lastOp, trip, lastSummary,
          uploadPc, failure, headerParams, disposition, filename, today, calendarPc,
          currentYear, currentMonth, calendarData, calendarBody, calendarReqs,
          lastRequest, navCount, navLog>>

viewVars == <<allData, filteredData, filteredIsAll, currentFilter, currentSort,
              searchInput>>
trackerVars == <<hasUnsavedChanges, lastChangeTimestamp, lastExportedAt, lastSummary>>
serverVars == <<srvData, srvVersion, srvLastExport, srvExportVersion>>
downloadVars == <<headerParams, disposition, filename>>
calendarVars == <<today, calendarPc, currentYear, currentMonth, calendarData, calendarBody,
                  calendarReqs, lastRequest, navCount, navLog>>

-----------------------------------------------------------------------------
\* Bounds

MaxRecords == 2         \* records in a Dataset
MaxTime == 2000         \* the clock stops here (ms); it starts at 1000
MaxInFlight == 2        \* handlers running at the same time
MaxStrLen == 3          \* length of the 既満了日数 input
MaxMutations == 1       \* add / update / delete requests the backend applies

-----------------------------------------------------------------------------
\* JavaScript values

Null == <<>>
Num(n) == <<n>>
IsNull(v) == v = <<>>
Val(v) == v[1]

RECURSIVE SeqToSet(_)
SeqToSet(s) == IF s = <<>> THEN {} ELSE {Head(s)} \cup SeqToSet(Tail(s))

Reverse(s) == [i \in 1..Len(s) |-> s[Len(s) + 1 - i]]

\* String.prototype.toLowerCase on the code units A-Z
ToLowerCase(s) == [i \in 1..Len(s) |-> IF s[i] >= 65 /\ s[i] <= 90 THEN s[i] + 32 ELSE s[i]]

IsSpace(c) == c \in {9, 10, 13, 32, 12288}

RECURSIVE TrimStart(_)
TrimStart(s) == IF s # <<>> /\ IsSpace(Head(s)) THEN TrimStart(Tail(s)) ELSE s

\* String.prototype.trim
Trim(s) == Reverse(TrimStart(Reverse(TrimStart(s))))

\* String.prototype.includes
Includes(s, sub) ==
    \E i \in 0..(Len(s) - Len(sub)) : SubSeq(s, i + 1, i + Len(sub)) = sub

\* a < b on two strings: the first differing code unit decides, a proper prefix is smaller
RECURSIVE StrLess(_, _)
StrLess(a, b) ==
    IF b = <<>> THEN FALSE
    ELSE IF a = <<>> THEN TRUE
    ELSE IF Head(a) # Head(b) THEN Head(a) < Head(b)
    ELSE StrLess(Tail(a), Tail(b))

-----------------------------------------------------------------------------
\* Records

Tokutei1 == <<29305, 23450, 25216, 33021, 49, 21495>>       \* 特定技能1号
Tokutei1Wide == <<29305, 23450, 25216, 33021, 65297, 21495>> \* 特定技能１号
Tokutei2 == <<29305, 23450, 25216, 33021, 50, 21495>>       \* 特定技能2号
Jisshu1 == <<25216, 33021, 23455, 32722, 49, 21495>>        \* 技能実習1号
Gijutsu == <<25216, 34899>>                                  \* 技術

Row(i, code, name, cat, nat, until, nissu, level, k1, k2, k3) ==
    [index |-> i, tantoushaCode |-> code, shimei1 |-> name, shimei2 |-> name,
     zairyuShikaku |-> cat, kokuseki |-> nat, manryoMadeNissu |-> until,
     manryoNissuValue |-> nissu, kigenLevel |-> level,
     kigen1Status |-> k1, kigen2Status |-> k2, kigen3Status |-> k3]

\* The records a backend response may hold; every one has its own index.
\* Codes: "B2" "a1" "A1" "a1" "c";  countries "VN" "vn" "PH".
Pool ==
    { Row(1, <<66, 50>>, <<76, 105>>, Tokutei1, <<86, 78>>,
          Num(-5), Num(1650), "level1", "overdue", "null", "null"),
      Row(2, <<97, 49>>, <<65, 110>>, Tokutei1Wide, <<118, 110>>,
          Null, Num(1643), "none", "null", "null", "null"),
      Row(3, <<65, 49>>, <<66, 97>>, Tokutei1, <<80, 72>>,
          Num(10), Num(1642), "level2", "upcoming", "overdue", "upcoming"),
      Row(4, <<97, 49>>, <<99, 97>>, Jisshu1, <<86, 78>>,
          Num(0), Null, "level3", "upcoming", "upcoming", "overdue"),
      Row(5, <<99>>, <<97, 98>>, Gijutsu, <<80, 72>>,
          Num(-1), Num(1650), "level1", "overdue", "overdue", "null") }

RECURSIVE SeqsOver(_, _)
\* the sequences of at most n distinct elements of S
SeqsOver(S, n) ==
    IF n = 0 THEN {<<>>}
    ELSE LET shorter == SeqsOver(S, n - 1)
         IN  shorter \cup {Append(s, x) : s \in shorter, x \in S}

Distinct(s) == Cardinality(SeqToSet(s)) = Len(s)
Datasets == {s \in SeqsOver(Pool, MaxRecords) : Distinct(s)}

Ids(s) == {s[i].index : i \in 1..Len(s)}

-----------------------------------------------------------------------------
\* RecordFilterSort: pure parts.  Array.prototype.filter is SelectSeq: a new array,
\* order kept.

FilterTypes == {"all", "deadline_passed", "expired", "30days", "60days", "90days",
                "skill1_limit"}
Columns == {"tantoushaCode", "manryoNissuValue"}

\* app.js:207-210
ExpiredPredicate(row) ==
    ~IsNull(row.manryoMadeNissu) /\ Val(row.manryoMadeNissu) < 0

\* app.js:232-235
Skill1LimitPredicate(row) ==
    ~IsNull(row.manryoNissuValue) /\ (Val(row.manryoNissuValue) + 184) > 1826

\* app.js:194-237, the callback handed to allData.filter for each filter name
FilterPredicate(filterType, row) ==
    CASE filterType = "all" -> TRUE
      [] filterType = "deadline_passed" ->
            \/ (row.kigen1Status # "null" /\ row.kigen1Status = "overdue")
            \/ (row.kigen2Status # "null" /\ row.kigen2Status = "overdue")
            \/ (row.kigen3Status # "null" /\ row.kigen3Status = "overdue")
      [] filterType = "expired" -> ExpiredPredicate(row)
      [] filterType = "30days" -> row.kigenLevel = "level1"
      [] filterType = "60days" -> row.kigenLevel = "level2"
      [] filterType = "90days" -> row.kigenLevel = "level3"
      [] filterType = "skill1_limit" -> Skill1LimitPredicate(row)

\* app.js:255-259
SearchPredicate(searchText, row) ==
    \/ Includes(ToLowerCase(row.tantoushaCode), searchText)
    \/ Includes(ToLowerCase(row.shimei1), searchText)
    \/ Includes(ToLowerCase(row.shimei2), searchText)
    \/ Includes(ToLowerCase(row.zairyuShikaku), searchText)
    \/ Includes(ToLowerCase(row.kokuseki), searchText)

\* a mutation of the numeric sort key: null read as 0 instead of Infinity
SortKeyNullAsZero(row, column) ==
    IF column = "manryoNissuValue"
    THEN [inf |-> FALSE, n |-> IF IsNull(row[column]) THEN 0 ELSE Val(row[column])]
    ELSE row[column]

\* app.js:277-284, aVal / bVal of the comparator
SortKey(row, column) ==
    IF column = "manryoNissuValue"
    THEN IF IsNull(row[column]) THEN [inf |-> TRUE, n |-> 0]
         ELSE [inf |-> FALSE, n |-> Val(row[column])]
    ELSE row[column]

\* aVal < bVal
KeyLess(column, x, y) ==
    IF column = "manryoNissuValue"
    THEN ~x.inf /\ (y.inf \/ x.n < y.n)
    ELSE StrLess(x, y)

\* app.js:276-289, the comparator
Compare(a, b, column, ascending) ==
    LET aVal == SortKey(a, column)
        bVal == SortKey(b, column)
    IN  IF KeyLess(column, aVal, bVal) THEN (IF ascending THEN -1 ELSE 1)
        ELSE IF KeyLess(column, bVal, aVal) THEN (IF ascending THEN 1 ELSE -1)
        ELSE 0

RECURSIVE InsertSorted(_, _, _, _)
\* x goes behind every element that does not compare greater than it
InsertSorted(x, s, column, ascending) ==
    IF s = <<>> THEN <<x>>
    ELSE IF Compare(Head(s), x, column, ascending) <= 0
         THEN <<Head(s)>> \o InsertSorted(x, Tail(s), column, ascending)
         ELSE <<x>> \o s

RECURSIVE ArraySort(_, _, _)
\* Array.prototype.sort with the comparator: a stable sort (ES2019)
ArraySort(s, column, ascending) ==
    IF s = <<>> THEN <<>>
    ELSE InsertSorted(s[Len(s)], ArraySort(SubSeq(s, 1, Len(s) - 1), column, ascending),
                      column, ascending)

-----------------------------------------------------------------------------
\* UnsavedChangeTracker: pure parts

\* app.js:598-603; the backend writes "YYYY-MM-DD HH:MM:SS", whole seconds, which
\* new Date(..).getTime() turns into ms
parseSummaryTimestamp(timestamp) ==
    IF IsNull(timestamp) THEN Null ELSE Num(Val(timestamp) * 1000)

\* a mutation of the comparison: strictly newer only
ExportCoversChangeStrict(exportedAt, changeTimestamp) ==
    /\ ~IsNull(changeTimestamp) /\ Val(changeTimestamp) # 0
    /\ ~IsNull(exportedAt)
    /\ Val(exportedAt) > Val(changeTimestamp)

\* app.js:618, the condition (a timestamp of 0 is falsy)
ExportCoversChange(exportedAt, changeTimestamp) ==
    /\ ~IsNull(changeTimestamp) /\ Val(changeTimestamp) # 0
    /\ ~IsNull(exportedAt)
    /\ Val(exportedAt) >= Val(changeTimestamp)

\* the tracker as one value, so that handlers can apply several updates in a row
Tracker == [hasUnsavedChanges |-> hasUnsavedChanges,
            lastChangeTimestamp |-> lastChangeTimestamp,
            lastExportedAt |-> lastExportedAt]

SetTracker(t) ==
    /\ hasUnsavedChanges' = t.hasUnsavedChanges
    /\ lastChangeTimestamp' = t.lastChangeTimestamp
    /\ lastExportedAt' = t.lastExportedAt

\* app.js:605-624 with summary.last_exported_at = timestamp, on a page that has the
\* #lastExportInfo element (without it the function returns at once)
updateLastExportInfo(t, timestamp) ==
    LET exportedAt == parseSummaryTimestamp(timestamp)
    IN  IF ExportCoversChange(exportedAt, t.lastChangeTimestamp)
        THEN [hasUnsavedChanges |-> FALSE, lastChangeTimestamp |-> Null,
              lastExportedAt |-> exportedAt]
        ELSE [t EXCEPT !.lastExportedAt = exportedAt]

\* app.js:626-630 with Date.now() = time
markUnsavedChanges(t, time) ==
    [t EXCEPT !.hasUnsavedChanges = TRUE, !.lastChangeTimestamp = Num(time)]

\* app.js:632-636
resetUnsavedChanges(t) ==
    [t EXCEPT !.hasUnsavedChanges = FALSE, !.lastChangeTimestamp = Null]

SummaryEvent(ok) ==
    IF ~ok THEN "failed" ELSE IF hasUnsavedChanges THEN "dirty" ELSE "clean"

\* app.js:70-95, the tracker after the response of GET /api/summary
loadSummary(t, ok) == IF ok THEN updateLastExportInfo(t, srvLastExport) ELSE t

-----------------------------------------------------------------------------
\* Handlers of the table view

NoTrip == [stage |-> 0, ids |-> {}]

\* the position in an all -> f -> all sequence of filterData calls
TripAfterFilter(filterType) ==
    CASE trip.stage = 1 -> [stage |-> 2, ids |-> trip.ids]
      [] trip.stage = 2 /\ filterType = "all" -> [stage |-> 3, ids |-> trip.ids]
      [] trip.stage = 3 /\ filterType # "all" -> [stage |-> 2, ids |-> Ids(allData)]
      [] OTHER -> IF filterType = "all" THEN [stage |-> 1, ids |-> Ids(allData)]
                  ELSE NoTrip

\* a mutation of filterData: every filter narrows what is visible now
FilterResultOfVisible(filterType) ==
    SelectSeq(filteredData, LAMBDA row : FilterPredicate(filterType, row))

\* app.js:194-237, the array filterData assigns to filteredData
FilterResult(filterType) ==
    IF filterType = "all" THEN allData
    ELSE SelectSeq(allData, LAMBDA row : FilterPredicate(filterType, row))

\* app.js:183-240
filterData(filterType) ==
    /\ currentFilter' = filterType
    /\ filteredData' = FilterResult(filterType)
    /\ filteredIsAll' = (filterType = "all")
    /\ lastOp' = "filterData"
    /\ trip' = TripAfterFilter(filterType)
    /\ UNCHANGED <<allData, currentSort, searchInput>>

\* app.js:243-265, with the text typed into #searchInput
searchData(typed) ==
    LET searchText == Trim(ToLowerCase(typed))
    IN  /\ searchInput' = typed
        /\ IF searchText = <<>>
           THEN filteredData' = allData /\ filteredIsAll' = TRUE
           ELSE /\ filteredData' =
                     SelectSeq(allData, LAMBDA row : SearchPredicate(searchText, row))
                /\ filteredIsAll' = FALSE
        /\ lastOp' = "searchData"
        /\ trip' = NoTrip
        /\ UNCHANGED <<allData, currentFilter, currentSort>>

\* a mutation of sortTable: the direction is never toggled
NextSortNoToggle(column) == [column |-> column, ascending |-> TRUE]

\* app.js:269-274
NextSort(column) ==
    IF currentSort.column = column
    THEN [column |-> column, ascending |-> ~currentSort.ascending]
    ELSE [column |-> column, ascending |-> TRUE]

\* app.js:268-293; filteredData.sort works in place, so it reorders allData too
\* whenever both names refer to one array
sortTable(column) ==
    /\ currentSort' = NextSort(column)
    /\ filteredData' = ArraySort(filteredData, column, currentSort'.ascending)
    /\ allData' = IF filteredIsAll THEN filteredData' ELSE allData
    /\ lastOp' = IF lastOp \in {"sortTable", "sortTableAgain"} /\ currentSort.column = column
                 THEN "sortTableAgain" ELSE "sortTable"
    /\ trip' = NoTrip
    /\ UNCHANGED <<filteredIsAll, currentFilter, searchInput>>

\* app.js:57-61, the response of GET /api/data has arrived
LoadDataOk ==
    /\ allData' = srvData
    /\ filteredData' = allData'
    /\ filteredIsAll' = TRUE
    /\ UNCHANGED <<currentFilter, currentSort, searchInput>>

\* a mutation of loadData: a failed load empties the table
LoadDataFailedClears ==
    /\ allData' = <<>> /\ filteredData' = <<>> /\ filteredIsAll' = TRUE
    /\ UNCHANGED <<currentFilter, currentSort, searchInput>>

\* app.js:53-55 and 63-66
LoadDataFailed == UNCHANGED viewVars

\* app.js:48-67
loadData(ok) == IF ok THEN LoadDataOk ELSE LoadDataFailed

-----------------------------------------------------------------------------
\* Form validation: pure parts

\* the value of a digit in the radix, or -1
DigitValue(c, radix) ==
    CASE c >= 48 /\ c <= 57 -> c - 48
      [] radix = 16 /\ c >= 97 /\ c <= 102 -> c - 87
      [] radix = 16 /\ c >= 65 /\ c <= 70 -> c - 55
      [] OTHER -> -1

RECURSIVE DigitsPrefix(_, _, _)
\* the number read from the digits s starts with; <<>> when it starts with none
DigitsPrefix(s, radix, acc) ==
    IF s = <<>> \/ DigitValue(Head(s), radix) < 0 THEN acc
    ELSE DigitsPrefix(Tail(s), radix,
                      Num((IF IsNull(acc) THEN 0 ELSE Val(acc)) * radix
                          + DigitValue(Head(s), radix)))

\* parseInt(string): leading white space, a sign, an optional 0x, then digits up to
\* the first character that is none; Null stands for NaN
parseInt(string) ==
    LET s1 == TrimStart(string)
        negative == s1 # <<>> /\ Head(s1) = 45
        s2 == IF s1 # <<>> /\ Head(s1) \in {43, 45} THEN Tail(s1) ELSE s1
        hex == Len(s2) >= 2 /\ s2[1] = 48 /\ s2[2] \in {88, 120}
        digits == DigitsPrefix(IF hex THEN SubSeq(s2, 3, Len(s2)) ELSE s2,
                               IF hex THEN 16 ELSE 10, Null)
    IN  IF IsNull(digits) THEN Null
        ELSE IF negative THEN Num(0 - Val(digits)) ELSE digits

\* app.js:475
IsTier1(zairyuShikaku) ==
    /\ Includes(zairyuShikaku, <<29305, 23450, 25216, 33021>>)
    /\ (Includes(zairyuShikaku, <<49, 21495>>) \/ Includes(zairyuShikaku, <<65297, 21495>>))

\* app.js:476-486, the two early returns
KiManryoRejected(kiManryoDays) ==
    \/ kiManryoDays = <<>>
    \/ LET kiManryoNum == parseInt(kiManryoDays)
       IN  IsNull(kiManryoNum) \/ Val(kiManryoNum) < 0

\* app.js:475-487
ValidationFails(zairyuShikaku, kiManryoDays) ==
    IsTier1(zairyuShikaku) /\ KiManryoRejected(kiManryoDays)

-----------------------------------------------------------------------------
\* The backend, as section 6 of the specification describes its API

\* the record the backend derives from a submitted form
NewRow(i, req) ==
    Row(i, <<110>>, <<110>>, req.zairyuShikaku, <<74, 80>>, Null, Null, "none",
        "null", "null", "null")

Reindex(s) == [k \in 1..Len(s) |-> [s[k] EXCEPT !.index = k]]

\* POST /api/data/add and PUT /api/data/update/{id}
ServerAccepts(req) ==
    IsNull(req.index) \/ Val(req.index) \in Ids(srvData)

ServerApply(req) ==
    IF IsNull(req.index) THEN Append(srvData, NewRow(Len(srvData) + 1, req))
    ELSE [k \in 1..Len(srvData) |->
            IF srvData[k].index = Val(req.index) THEN NewRow(srvData[k].index, req)
            ELSE srvData[k]]

\* DELETE /api/data/delete/{id}
ServerDelete(index) ==
    Reindex(SelectSeq(srvData, LAMBDA row : row.index # index))

-----------------------------------------------------------------------------
\* Asynchronous handlers.  A handler runs to its next await in one step; the
\* backend handles a mutating or exporting request in a step of its own, and a
\* GET of /api/data or /api/summary is answered from the backend's state at the
\* moment the response is taken.

B(x) == IF x THEN 1 ELSE 0

InFlight ==
    B(pagePc.data = "pending" \/ pagePc.summary = "pending") + B(refreshPc # "idle")
    + B(submitPc # "idle") + B(deletePc # "idle") + B(exportPc # "idle")
    + B(uploadPc # "idle")

CanStart == InFlight < MaxInFlight

\* mutations the backend has applied or may still apply
MutationsAhead == srvVersion + B(submitPc = "request") + B(deletePc = "request")

pcVars == <<pagePc, refreshPc, submitPc, submitReq, deletePc, deleteReq, exportPc, exportResp>>
NoReq == [index |-> Null, zairyuShikaku |-> <<>>, kiManryoDays |-> <<>>, ok |-> FALSE,
          version |-> 0]
NoDelete == [index |-> 0, ok |-> FALSE, version |-> 0]
NoExport == [ok |-> FALSE]

\* the view is replaced by a reload
Reloaded(ok) ==
    /\ loadData(ok)
    /\ lastOp' = "loadData" /\ trip' = NoTrip
    /\ failure' = IF ok THEN "none" ELSE "load"

Max(a, b) == IF a >= b THEN a ELSE b

\* app.js:26-38
DOMContentLoaded ==
    /\ pagePc = [data |-> "init", summary |-> "init"]
    /\ pagePc' = [data |-> "pending", summary |-> "pending"]
    /\ failure' = "none"
    /\ UNCHANGED <<uploadPc, downloadVars, calendarVars>>
    /\ UNCHANGED <<viewVars, trackerVars, focus, now, serverVars, refreshPc, submitPc,
                   submitReq, deletePc, deleteReq, exportPc, exportResp, mutDoneVersion,
                   lastOp, trip>>

\* app.js:34, loadData() resumes
PageLoadData(ok) ==
    /\ pagePc.data = "pending"
    /\ pagePc' = [pagePc EXCEPT !.data = "done"]
    /\ Reloaded(ok)
    /\ UNCHANGED <<uploadPc, downloadVars, calendarVars>>
    /\ UNCHANGED <<trackerVars, focus, now, serverVars, refreshPc, submitPc, submitReq,
                   deletePc, deleteReq, exportPc, exportResp, mutDoneVersion>>

\* app.js:35, loadSummary() resumes
PageLoadSummary(ok) ==
    /\ pagePc.summary = "pending"
    /\ pagePc' = [pagePc EXCEPT !.summary = "done"]
    /\ SetTracker(loadSummary(Tracker, ok))
    /\ lastSummary' = SummaryEvent(ok)
    /\ failure' = "none"
    /\ UNCHANGED <<uploadPc, downloadVars, calendarVars>>
    /\ UNCHANGED <<viewVars, focus, now, serverVars, refreshPc, submitPc, submitReq,
                   deletePc, deleteReq, exportPc, exportResp, mutDoneVersion, lastOp, trip>>

\* app.js:296-297, refreshData up to the first await
refreshData ==
    /\ refreshPc = "idle" /\ CanStart
    /\ refreshPc' = "load"
    /\ failure' = "none"
    /\ UNCHANGED <<uploadPc, downloadVars, calendarVars>>
    /\ UNCHANGED <<viewVars, trackerVars, focus, now, serverVars, pagePc, submitPc,
                   submitReq, deletePc, deleteReq, exportPc, exportResp, mutDoneVersion,
                   lastOp, trip>>

\* app.js:297-298
RefreshLoadData(ok) ==
    /\ refreshPc = "load"
    /\ refreshPc' = "summary"
    /\ Reloaded(ok)
    /\ UNCHANGED <<uploadPc, downloadVars, calendarVars>>
    /\ UNCHANGED <<trackerVars, focus, now, serverVars, pagePc, submitPc, submitReq,
                   deletePc, deleteReq, exportPc, exportResp, mutDoneVersion>>

\* app.js:298-299
RefreshLoadSummary(ok) ==
    /\ refreshPc = "summary"
    /\ refreshPc' = "idle"
    /\ SetTracker(loadSummary(Tracker, ok))
    /\ lastSummary' = SummaryEvent(ok)
    /\ failure' = "none"
    /\ UNCHANGED <<uploadPc, downloadVars, calendarVars>>
    /\ UNCHANGED <<viewVars, focus, now, serverVars, pagePc, submitPc, submitReq,
                   deletePc, deleteReq, exportPc, exportResp, mutDoneVersion, lastOp, trip>>

\* app.js:467-524, handleFormSubmit up to the fetch; index is <<>> for an added record
handleFormSubmit(index, zairyuShikaku, kiManryoDays) ==
    /\ submitPc = "idle" /\ CanStart
    /\ MutationsAhead < MaxMutations
    /\ IF ValidationFails(zairyuShikaku, kiManryoDays)
       THEN /\ focus' = "kiManryoDays"
            /\ UNCHANGED <<submitPc, submitReq>>
       ELSE /\ submitPc' = "request"
            /\ submitReq' = [index |-> index, zairyuShikaku |-> zairyuShikaku,
                             kiManryoDays |-> kiManryoDays, ok |-> FALSE, version |-> 0]
            /\ UNCHANGED focus
    /\ failure' = "none"
    /\ UNCHANGED <<uploadPc, downloadVars, calendarVars>>
    /\ UNCHANGED <<viewVars, trackerVars, now, serverVars, pagePc, refreshPc, deletePc,
                   deleteReq, exportPc, exportResp, mutDoneVersion, lastOp, trip>>

\* the backend answers the add / update request
SubmitServer(ok) ==
    /\ submitPc = "request"
    /\ submitPc' = "response"
    /\ IF ok /\ ServerAccepts(submitReq)
       THEN /\ srvData' = ServerApply(submitReq)
            /\ srvVersion' = srvVersion + 1
            /\ submitReq' = [NoReq EXCEPT !.ok = TRUE, !.version = srvVersion']
       ELSE /\ submitReq' = NoReq
            /\ UNCHANGED <<srvData, srvVersion>>
    /\ failure' = "none"
    /\ UNCHANGED <<uploadPc, downloadVars, calendarVars>>
    /\ UNCHANGED <<viewVars, trackerVars, focus, now, srvLastExport, srvExportVersion,
                   pagePc, refreshPc, deletePc, deleteReq, exportPc, exportResp,
                   mutDoneVersion, lastOp, trip>>

\* app.js:526-536 and 539-543
SubmitResponse ==
    /\ submitPc = "response"
    /\ submitPc' = IF submitReq.ok THEN "load" ELSE "idle"
    /\ submitReq' = IF submitReq.ok THEN submitReq ELSE NoReq
    /\ failure' = IF submitReq.ok THEN "none" ELSE "save"
    /\ UNCHANGED <<uploadPc, downloadVars, calendarVars>>
    /\ UNCHANGED <<viewVars, trackerVars, focus, now, serverVars, pagePc, refreshPc,
                   deletePc, deleteReq, exportPc, exportResp, mutDoneVersion, lastOp, trip>>

\* app.js:536-537
SubmitLoadData(ok) ==
    /\ submitPc = "load"
    /\ submitPc' = "summary"
    /\ Reloaded(ok)
    /\ UNCHANGED <<uploadPc, downloadVars, calendarVars>>
    /\ UNCHANGED <<trackerVars, focus, now, serverVars, pagePc, refreshPc, submitReq,
                   deletePc, deleteReq, exportPc, exportResp, mutDoneVersion>>

\* a mutation of the handler: the change is marked before the summary is read
SubmitLoadSummaryMarkFirst(ok) ==
    /\ submitPc = "summary"
    /\ submitPc' = "idle"
    /\ SetTracker(loadSummary(markUnsavedChanges(Tracker, now), ok))
    /\ lastSummary' = "none"
    /\ mutDoneVersion' = Max(mutDoneVersion, submitReq.version)
    /\ submitReq' = NoReq
    /\ failure' = "none"
    /\ UNCHANGED <<uploadPc, downloadVars, calendarVars>>
    /\ UNCHANGED <<viewVars, focus, now, serverVars, pagePc, refreshPc, deletePc,
                   deleteReq, exportPc, exportResp, lastOp, trip>>

\* app.js:537-538
SubmitLoadSummary(ok) ==
    /\ submitPc = "summary"
    /\ submitPc' = "idle"
    /\ SetTracker(markUnsavedChanges(loadSummary(Tracker, ok), now))
    /\ lastSummary' = "none"
    /\ mutDoneVersion' = Max(mutDoneVersion, submitReq.version)
    /\ submitReq' = NoReq
    /\ failure' = "none"
    /\ UNCHANGED <<uploadPc, downloadVars, calendarVars>>
    /\ UNCHANGED <<viewVars, focus, now, serverVars, pagePc, refreshPc, deletePc,
                   deleteReq, exportPc, exportResp, lastOp, trip>>

\* app.js:547-561, deleteRow with both dialogs confirmed, up to the fetch
deleteRow(index) ==
    /\ deletePc = "idle" /\ CanStart
    /\ MutationsAhead < MaxMutations
    /\ deletePc' = "request"
    /\ deleteReq' = [index |-> index, ok |-> FALSE, version |-> 0]
    /\ failure' = "none"
    /\ UNCHANGED <<uploadPc, downloadVars, calendarVars>>
    /\ UNCHANGED <<viewVars, trackerVars, focus, now, serverVars, pagePc, refreshPc,
                   submitPc, submitReq, exportPc, exportResp, mutDoneVersion, lastOp, trip>>

\* the backend answers the delete request
DeleteServer(ok) ==
    /\ deletePc = "request"
    /\ deletePc' = "response"
    /\ IF ok /\ deleteReq.index \in Ids(srvData)
       THEN /\ srvData' = ServerDelete(deleteReq.index)
            /\ srvVersion' = srvVersion + 1
            /\ deleteReq' = [NoDelete EXCEPT !.ok = TRUE, !.version = srvVersion']
       ELSE /\ deleteReq' = NoDelete
            /\ UNCHANGED <<srvData, srvVersion>>
    /\ failure' = "none"
    /\ UNCHANGED <<uploadPc, downloadVars, calendarVars>>
    /\ UNCHANGED <<viewVars, trackerVars, focus, now, srvLastExport, srvExportVersion,
                   pagePc, refreshPc, submitPc, submitReq, exportPc, exportResp,
                   mutDoneVersion, lastOp, trip>>

\* app.js:563-572 and 575-579
DeleteResponse ==
    /\ deletePc = "response"
    /\ deletePc' = IF deleteReq.ok THEN "load" ELSE "idle"
    /\ deleteReq' = IF deleteReq.ok THEN deleteReq ELSE NoDelete
    /\ failure' = IF deleteReq.ok THEN "none" ELSE "delete"
    /\ UNCHANGED <<uploadPc, downloadVars, calendarVars>>
    /\ UNCHANGED <<viewVars, trackerVars, focus, now, serverVars, pagePc, refreshPc,
                   submitPc, submitReq, exportPc, exportResp, mutDoneVersion, lastOp, trip>>

\* app.js:572-573
DeleteLoadData(ok) ==
    /\ deletePc = "load"
    /\ deletePc' = "summary"
    /\ Reloaded(ok)
    /\ UNCHANGED <<uploadPc, downloadVars, calendarVars>>
    /\ UNCHANGED <<trackerVars, focus, now, serverVars, pagePc, refreshPc, submitPc,
                   submitReq, deleteReq, exportPc, exportResp, mutDoneVersion>>

\* app.js:573-574
DeleteLoadSummary(ok) ==
    /\ deletePc = "summary"
    /\ deletePc' = "idle"
    /\ SetTracker(markUnsavedChanges(loadSummary(Tracker, ok), now))
    /\ lastSummary' = "none"
    /\ mutDoneVersion' = Max(mutDoneVersion, deleteReq.version)
    /\ deleteReq' = NoDelete
    /\ failure' = "none"
    /\ UNCHANGED <<uploadPc, downloadVars, calendarVars>>
    /\ UNCHANGED <<viewVars, focus, now, serverVars, pagePc, refreshPc, submitPc,
                   submitReq, exportPc, exportResp, lastOp, trip>>

\* app.js:349-352, exportProcessedData up to the fetch
exportProcessedData ==
    /\ exportPc = "idle" /\ CanStart
    /\ exportPc' = "request"
    /\ failure' = "none"
    /\ UNCHANGED <<uploadPc, downloadVars, calendarVars>>
    /\ UNCHANGED <<viewVars, trackerVars, focus, now, serverVars, pagePc, refreshPc,
                   submitPc, submitReq, deletePc, deleteReq, exportResp, mutDoneVersion,
                   lastOp, trip>>

\* the backend writes the spreadsheet from the records it holds now
ExportServer(ok) ==
    /\ exportPc = "request"
    /\ exportPc' = "response"
    /\ exportResp' = [ok |-> ok]
    /\ IF ok
       THEN /\ srvLastExport' = Num(now \div 1000)
            /\ srvExportVersion' = srvVersion
       ELSE UNCHANGED <<srvLastExport, srvExportVersion>>
    /\ failure' = "none"
    /\ UNCHANGED <<uploadPc, downloadVars, calendarVars>>
    /\ UNCHANGED <<viewVars, trackerVars, focus, now, srvData, srvVersion, pagePc,
                   refreshPc, submitPc, submitReq, deletePc, deleteReq, mutDoneVersion,
                   lastOp, trip>>

\* app.js:354-375 and 376-380
ExportResponse ==
    /\ exportPc = "response"
    /\ IF exportResp.ok
       THEN exportPc' = "summary" /\ SetTracker(resetUnsavedChanges(Tracker))
            /\ lastSummary' = "none"
       ELSE exportPc' = "idle" /\ UNCHANGED trackerVars
    /\ exportResp' = NoExport
    /\ failure' = IF exportResp.ok THEN "none" ELSE "export"
    /\ UNCHANGED <<uploadPc, downloadVars, calendarVars>>
    /\ UNCHANGED <<viewVars, focus, now, serverVars, pagePc, refreshPc, submitPc,
                   submitReq, deletePc, deleteReq, mutDoneVersion, lastOp, trip>>

\* app.js:375
ExportLoadSummary(ok) ==
    /\ exportPc = "summary"
    /\ exportPc' = "idle"
    /\ SetTracker(loadSummary(Tracker, ok))
    /\ lastSummary' = SummaryEvent(ok)
    /\ failure' = "none"
    /\ UNCHANGED <<uploadPc, downloadVars, calendarVars>>
    /\ UNCHANGED <<viewVars, focus, now, serverVars, pagePc, refreshPc, submitPc,
                   submitReq, deletePc, deleteReq, exportResp, mutDoneVersion, lastOp, trip>>

\* the file the user picks in #fileInput: one record
UploadFiles == {<<Row(1, <<65, 49>>, <<66, 97>>, Tokutei1, <<80, 72>>,
                      Num(10), Num(1642), "level2", "upcoming", "overdue", "upcoming")>>}

\* app.js:302-314, handleFileUpload with a file chosen, up to the fetch
handleFileUpload ==
    /\ uploadPc = "idle" /\ CanStart
    /\ uploadPc' = "request"
    /\ failure' = "none"
    /\ UNCHANGED <<downloadVars, calendarVars>>
    /\ UNCHANGED <<viewVars, trackerVars, focus, now, serverVars, pcVars, mutDoneVersion,
                   lastOp, trip>>

\* the backend answers POST /api/upload: the stored records become the file's
UploadServer(ok) ==
    /\ uploadPc = "request"
    /\ IF ok
       THEN uploadPc' = "accepted" /\ srvData' \in UploadFiles
       ELSE uploadPc' = "rejected" /\ UNCHANGED srvData
    /\ failure' = "none"
    /\ UNCHANGED <<downloadVars, calendarVars>>
    /\ UNCHANGED <<viewVars, trackerVars, focus, now, srvVersion, srvLastExport,
                   srvExportVersion, pcVars, mutDoneVersion, lastOp, trip>>

\* app.js:316-325 and 328-332
UploadResponse ==
    /\ uploadPc \in {"accepted", "rejected"}
    /\ uploadPc' = IF uploadPc = "accepted" THEN "load" ELSE "idle"
    /\ failure' = IF uploadPc = "accepted" THEN "none" ELSE "upload"
    /\ UNCHANGED <<downloadVars, calendarVars>>
    /\ UNCHANGED <<viewVars, trackerVars, focus, now, serverVars, pcVars, mutDoneVersion,
                   lastOp, trip>>

\* app.js:325-326
UploadLoadData(ok) ==
    /\ uploadPc = "load"
    /\ uploadPc' = "summary"
    /\ Reloaded(ok)
    /\ UNCHANGED <<downloadVars, calendarVars>>
    /\ UNCHANGED <<trackerVars, focus, now, serverVars, pcVars, mutDoneVersion>>

\* app.js:326-327
UploadLoadSummary(ok) ==
    /\ uploadPc = "summary"
    /\ uploadPc' = "idle"
    /\ SetTracker(resetUnsavedChanges(loadSummary(Tracker, ok)))
    /\ lastSummary' = "none"
    /\ failure' = "none"
    /\ UNCHANGED <<downloadVars, calendarVars>>
    /\ UNCHANGED <<viewVars, focus, now, serverVars, pcVars, mutDoneVersion, lastOp, trip>>

\* half a second passes
Tick ==
    /\ now < MaxTime
    /\ now' = now + 500
    /\ failure' = "none"
    /\ UNCHANGED <<uploadPc, downloadVars, calendarVars>>
    /\ UNCHANGED <<viewVars, trackerVars, focus, serverVars, pcVars, mutDoneVersion,
                   lastOp, trip>>

\* the user clicks a filter button, types into the search box, clicks a column head
FilterClick(filterType) ==
    /\ filterData(filterType)
    /\ failure' = "none"
    /\ UNCHANGED <<uploadPc, downloadVars, calendarVars>>
    /\ UNCHANGED <<trackerVars, focus, now, serverVars, pcVars, mutDoneVersion>>

SearchInput(typed) ==
    /\ searchData(typed)
    /\ failure' = "none"
    /\ UNCHANGED <<uploadPc, downloadVars, calendarVars>>
    /\ UNCHANGED <<trackerVars, focus, now, serverVars, pcVars, mutDoneVersion>>

SortClick(column) ==
    /\ sortTable(column)
    /\ failure' = "none"
    /\ UNCHANGED <<uploadPc, downloadVars, calendarVars>>
    /\ UNCHANGED <<trackerVars, focus, now, serverVars, pcVars, mutDoneVersion>>

-----------------------------------------------------------------------------
\* Specifications

SearchTexts == {<<>>, <<32, 65>>}  \* "" and " A"

\* no export response has been received
NoDownload == headerParams = <<>> /\ disposition = <<>> /\ filename = Null

\* calendar.js:4-6, the calendar page as its script leaves it on the day t
CalendarScript(t) ==
    /\ today = t
    /\ calendarPc = "init"
    /\ currentYear = t.year /\ currentMonth = t.month
    /\ calendarData = <<>> /\ calendarBody = <<>>
    /\ calendarReqs = <<>> /\ lastRequest = "none"
    /\ navCount = 0 /\ navLog = <<>>

\* the month in which the table page is used
ThisMonth == [year |-> 2024, month |-> 1]

\* the page as the script leaves it, app.js:4-10, before DOMContentLoaded
InitClient ==
    /\ allData = <<>> /\ filteredData = <<>> /\ filteredIsAll = FALSE
    /\ currentFilter = "all"
    /\ currentSort = [column |-> "none", ascending |-> TRUE]
    /\ searchInput = <<>>
    /\ hasUnsavedChanges = FALSE /\ lastChangeTimestamp = Null /\ lastExportedAt = Null
    /\ focus = "none"
    /\ pagePc = [data |-> "init", summary |-> "init"]
    /\ refreshPc = "idle"
    /\ submitPc = "idle" /\ submitReq = NoReq
    /\ deletePc = "idle" /\ deleteReq = NoDelete
    /\ exportPc = "idle" /\ exportResp = NoExport
    /\ uploadPc = "idle" /\ failure = "none"
    /\ mutDoneVersion = 0
    /\ lastOp = "none" /\ trip = NoTrip /\ lastSummary = "none"

\* The table view over every Dataset the backend may hold
Init ==
    /\ InitClient
    /\ now = 1000
    /\ srvData \in Datasets
    /\ srvVersion = 0 /\ srvLastExport = Null /\ srvExportVersion = 0
    /\ NoDownload /\ CalendarScript(ThisMonth)

Next ==
    \/ DOMContentLoaded
    \/ \E ok \in BOOLEAN : PageLoadData(ok)
    \/ \E ok \in BOOLEAN : PageLoadSummary(ok)
    \/ \E filterType \in FilterTypes : FilterClick(filterType)
    \/ \E typed \in SearchTexts : SearchInput(typed)
    \/ \E column \in Columns : SortClick(column)

Spec == Init /\ [][Next]_vars

-----------------------------------------------------------------------------
\* The unsaved-change tracker under concurrent handlers (specification TrackSpec)

\* what the user submits while the tracker is observed: 特定技能1号 with "1"
TrackForms == {<<Tokutei1, <<49>>>>}

EditIndexes == {Null} \cup {Num(i) : i \in Ids(allData)}

TrackDatasets == {s \in Datasets : Len(s) = 1 /\ Reindex(s) = s}

\* the page once DOMContentLoaded has run and both of its fetches have been
\* answered: the Dataset is on the screen, the summary has been read
TrackInit ==
    /\ now = 1000
    /\ srvData \in TrackDatasets
    /\ srvVersion = 0 /\ srvExportVersion = 0
    /\ srvLastExport \in {Null, Num(0)}
    /\ allData = srvData /\ filteredData = srvData /\ filteredIsAll = TRUE
    /\ currentFilter = "all"
    /\ currentSort = [column |-> "none", ascending |-> TRUE]
    /\ searchInput = <<>>
    /\ hasUnsavedChanges = FALSE /\ lastChangeTimestamp = Null
    /\ lastExportedAt = parseSummaryTimestamp(srvLastExport)
    /\ focus = "none"
    /\ pagePc = [data |-> "done", summary |-> "done"]
    /\ refreshPc = "idle"
    /\ submitPc = "idle" /\ submitReq = NoReq
    /\ deletePc = "idle" /\ deleteReq = NoDelete
    /\ exportPc = "idle" /\ exportResp = NoExport
    /\ uploadPc = "idle" /\ failure = "none"
    /\ mutDoneVersion = 0
    /\ lastOp = "loadData" /\ trip = NoTrip /\ lastSummary = "clean"
    /\ NoDownload /\ CalendarScript(ThisMonth)

TrackNext ==
    \/ refreshData
    \/ \E ok \in BOOLEAN : RefreshLoadData(ok)
    \/ \E ok \in BOOLEAN : RefreshLoadSummary(ok)
    \/ \E index \in EditIndexes, form \in TrackForms :
          handleFormSubmit(index, form[1], form[2])
    \/ \E ok \in BOOLEAN : SubmitServer(ok)
    \/ SubmitResponse
    \/ \E ok \in BOOLEAN : SubmitLoadData(ok)
    \/ \E ok \in BOOLEAN : SubmitLoadSummary(ok)
    \/ \E index \in Ids(filteredData) : deleteRow(index)
    \/ \E ok \in BOOLEAN : DeleteServer(ok)
    \/ DeleteResponse
    \/ \E ok \in BOOLEAN : DeleteLoadData(ok)
    \/ \E ok \in BOOLEAN : DeleteLoadSummary(ok)
    \/ exportProcessedData
    \/ \E ok \in BOOLEAN : ExportServer(ok)
    \/ ExportResponse
    \/ \E ok \in BOOLEAN : ExportLoadSummary(ok)
    \/ Tick

TrackSpec == TrackInit /\ [][TrackNext]_vars

-----------------------------------------------------------------------------
\* Form validation over every input (specification FormSpec)

FormChars == {49, 53, 45, 46, 97}   \* 1 5 - . a

RECURSIVE StringsOver(_, _)
StringsOver(chars, n) ==
    IF n = 0 THEN {<<>>}
    ELSE LET shorter == StringsOver(chars, n - 1)
         IN  shorter \cup {Append(str, c) : str \in shorter, c \in chars}

KiManryoInputs == StringsOver(FormChars, MaxStrLen)
ZairyuInputs == {Tokutei1, Tokutei1Wide, Tokutei2, Jisshu1, Gijutsu}

FormNext ==
    \/ \E index \in EditIndexes, zairyuShikaku \in ZairyuInputs,
          kiManryoDays \in KiManryoInputs :
          handleFormSubmit(index, zairyuShikaku, kiManryoDays)
    \/ \E ok \in BOOLEAN : SubmitServer(ok)
    \/ SubmitResponse
    \/ \E ok \in BOOLEAN : SubmitLoadData(ok)
    \/ \E ok \in BOOLEAN : SubmitLoadSummary(ok)

FormSpec == TrackInit /\ [][FormNext]_vars

-----------------------------------------------------------------------------
\* Failing requests (specification FailSpec)

\* two records on the screen, so that a filter and a sort both show
FailDatasets == {s \in Datasets : Len(s) = 2 /\ Reindex(s) = s}

FailFilters == {"all", "expired"}
FailColumns == {"tantoushaCode"}
\* the record the user edits or deletes
FailIndexes == {1}

\* the table page, loaded, with local changes not yet exported
FailInit ==
    /\ now = 1000
    /\ srvData \in FailDatasets
    /\ srvVersion = 0 /\ srvExportVersion = 0 /\ srvLastExport = Null
    /\ allData = srvData /\ filteredData = srvData /\ filteredIsAll = TRUE
    /\ currentFilter = "all"
    /\ currentSort = [column |-> "none", ascending |-> TRUE]
    /\ searchInput = <<>>
    /\ hasUnsavedChanges = TRUE /\ lastChangeTimestamp = Num(now)
    /\ lastExportedAt = Null
    /\ focus = "none"
    /\ pagePc = [data |-> "done", summary |-> "done"]
    /\ refreshPc = "idle"
    /\ submitPc = "idle" /\ submitReq = NoReq
    /\ deletePc = "idle" /\ deleteReq = NoDelete
    /\ exportPc = "idle" /\ exportResp = NoExport
    /\ uploadPc = "idle" /\ failure = "none"
    /\ mutDoneVersion = 0
    /\ lastOp = "loadData" /\ trip = NoTrip /\ lastSummary = "none"
    /\ NoDownload /\ CalendarScript(ThisMonth)

\* the user starts one operation at a time, and may filter and sort while it runs
Idle == InFlight = 0

FailNext ==
    \/ Idle /\ refreshData
    \/ \E ok \in BOOLEAN : RefreshLoadData(ok)
    \/ \E ok \in BOOLEAN : RefreshLoadSummary(ok)
    \/ Idle /\ handleFileUpload
    \/ \E ok \in BOOLEAN : UploadServer(ok)
    \/ UploadResponse
    \/ \E ok \in BOOLEAN : UploadLoadData(ok)
    \/ \E ok \in BOOLEAN : UploadLoadSummary(ok)
    \/ \E index \in {Null} \cup {Num(i) : i \in FailIndexes \cap Ids(allData)},
          form \in TrackForms :
          Idle /\ handleFormSubmit(index, form[1], form[2])
    \/ \E ok \in BOOLEAN : SubmitServer(ok)
    \/ SubmitResponse
    \/ \E ok \in BOOLEAN : SubmitLoadData(ok)
    \/ \E ok \in BOOLEAN : SubmitLoadSummary(ok)
    \/ \E index \in FailIndexes \cap Ids(filteredData) : Idle /\ deleteRow(index)
    \/ \E ok \in BOOLEAN : DeleteServer(ok)
    \/ DeleteResponse
    \/ \E ok \in BOOLEAN : DeleteLoadData(ok)
    \/ \E ok \in BOOLEAN : DeleteLoadSummary(ok)
    \/ Idle /\ exportProcessedData
    \/ \E ok \in BOOLEAN : ExportServer(ok)
    \/ ExportResponse
    \/ \E ok \in BOOLEAN : ExportLoadSummary(ok)
    \/ \E filterType \in FailFilters : FilterClick(filterType)
    \/ \E column \in FailColumns : SortClick(column)

FailSpec == FailInit /\ [][FailNext]_vars

-----------------------------------------------------------------------------
\* The calendar page (static/js/calendar.js)

MaxNavigations == 2       \* navigation clicks on the calendar page
MaxCalendarRequests == 2  \* /api/calendar requests in flight at the same time
MaxYearSpan == 14         \* years before and after this one whose months are rendered

tableVars == <<viewVars, trackerVars, focus, now, serverVars, pcVars, mutDoneVersion,
               lastOp, trip, uploadPc, failure>>

IsLeapYear(y) == (y % 4 = 0 /\ y % 100 # 0) \/ y % 400 = 0

\* calendar.js:58, new Date(year, month, 0).getDate(): the last day of the month
DaysInMonth(y, m) ==
    IF m = 2 THEN (IF IsLeapYear(y) THEN 29 ELSE 28)
    ELSE IF m \in {4, 6, 9, 11} THEN 30 ELSE 31

RECURSIVE DaysBefore(_, _)
\* the days of year y that precede its month m
DaysBefore(y, m) == IF m = 1 THEN 0 ELSE DaysBefore(y, m - 1) + DaysInMonth(y, m - 1)

\* calendar.js:59, new Date(year, month - 1, 1).getDay(), 0 for Sunday: the days
\* from 1 January of year 1, a Monday, to the first of the month, modulo 7
FirstDay(y, m) ==
    LET py == y - 1
    IN  (1 + py * 365 + py \div 4 - py \div 100 + py \div 400 + DaysBefore(y, m)) % 7

Month(y, m) == [year |-> y, month |-> m]

\* the days of a month on which the backend's projection has deadline entries
DeadlineDays == {1, 28}

\* calendar.js:86, calendarData[dateStr] for a day of the displayed month: the keys
\* of the object are the dates of the month it was requested for
HasData(data, y, m, day) == data = <<Month(y, m)>> /\ day \in DeadlineDays

OtherMonthCell == [kind |-> "other-month", day |-> 0, hasData |-> FALSE]

RECURSIVE RenderCells(_, _, _, _)
\* calendar.js:62-123 from cell k of the 6 x 7 grid on (i = k \div 7, j = k % 7),
\* with the loop variable day and the cells appended so far
RenderCells(k, day, cells, c) ==
    IF k = 42 THEN cells
    ELSE IF k > 0 /\ k % 7 = 0 /\ day > c.daysInMonth THEN cells   \* lines 120-122
    ELSE IF k \div 7 = 0 /\ k % 7 < c.firstDay
         THEN RenderCells(k + 1, day, Append(cells, OtherMonthCell), c)
    ELSE IF day > c.daysInMonth
         THEN RenderCells(k + 1, 1, Append(cells, OtherMonthCell), c)
    ELSE RenderCells(k + 1, day + 1,
                     Append(cells, [kind |-> "current", day |-> day,
                                    hasData |-> HasData(c.data, c.year, c.month, day)]),
                     c)

\* calendar.js:53-124, the cells of #calendarBody, row after row
RenderMonth(y, m, data) ==
    RenderCells(0, 1, <<>>,
                [year |-> y, month |-> m, data |-> data,
                 daysInMonth |-> DaysInMonth(y, m), firstDay |-> FirstDay(y, m)])

\* the years a calendar page can display
CalendarYears == (ThisMonth.year - MaxYearSpan - MaxNavigations)
                 ..(ThisMonth.year + MaxYearSpan + MaxNavigations)

\* what generateCalendar renders for each month, with the month's own projection
\* (TRUE) and with an empty or another month's projection (FALSE)
Rendered ==
    [y \in CalendarYears, m \in 1..12, own \in BOOLEAN |->
        RenderMonth(y, m, IF own THEN <<Month(y, m)>> ELSE <<>>)]

\* calendar.js:53-124 for the displayed month and the object in calendarData
generateCalendar(y, m, data) == Rendered[y, m, data = <<Month(y, m)>>]

\* a mutation of navigateMonth: the year never rolls
NavigatedMonthSameYear(y, m, direction) ==
    IF m + direction < 1 THEN Month(y, 12)
    ELSE IF m + direction > 12 THEN Month(y, 1)
    ELSE Month(y, m + direction)

\* calendar.js:128-135
NavigatedMonth(y, m, direction) ==
    IF m + direction < 1 THEN Month(y - 1, 12)
    ELSE IF m + direction > 12 THEN Month(y + 1, 1)
    ELSE Month(y, m + direction)

NavLogged(op, direction) ==
    LET entry == [op |-> op, direction |-> direction,
                  from |-> Month(currentYear, currentMonth)]
    IN  IF Len(navLog) < 2 THEN Append(navLog, entry) ELSE <<navLog[2], entry>>

\* calendar.js:31-34, loadCalendarData up to the fetch, for the month displayed
\* after this step
loadCalendarData ==
    /\ Len(calendarReqs) < MaxCalendarRequests
    /\ calendarReqs' = Append(calendarReqs, Month(currentYear', currentMonth'))
    /\ lastRequest' = "pending"
    /\ UNCHANGED <<calendarData, calendarBody>>

\* calendar.js:9-22; loadSummary() only touches the unsaved-change tracker
CalendarDOMContentLoaded ==
    /\ calendarPc = "init"
    /\ calendarPc' = "ready"
    /\ UNCHANGED <<currentYear, currentMonth>>
    /\ loadCalendarData
    /\ UNCHANGED <<today, navCount, navLog, tableVars, downloadVars>>

\* calendar.js:127-138
navigateMonth(direction) ==
    /\ calendarPc = "ready" /\ navCount < MaxNavigations
    /\ currentYear' = NavigatedMonth(currentYear, currentMonth, direction).year
    /\ currentMonth' = NavigatedMonth(currentYear, currentMonth, direction).month
    /\ loadCalendarData
    /\ navCount' = navCount + 1
    /\ navLog' = NavLogged("navigateMonth", direction)
    /\ UNCHANGED <<today, calendarPc, tableVars, downloadVars>>

\* calendar.js:141-145
navigateYear(direction) ==
    /\ calendarPc = "ready" /\ navCount < MaxNavigations
    /\ currentYear' = currentYear + direction
    /\ UNCHANGED currentMonth
    /\ loadCalendarData
    /\ navCount' = navCount + 1
    /\ navLog' = NavLogged("navigateYear", direction)
    /\ UNCHANGED <<today, calendarPc, tableVars, downloadVars>>

\* calendar.js:148-154
goToToday ==
    /\ calendarPc = "ready" /\ navCount < MaxNavigations
    /\ currentYear' = today.year
    /\ currentMonth' = today.month
    /\ loadCalendarData
    /\ navCount' = navCount + 1
    /\ navLog' = NavLogged("goToToday", 0)
    /\ UNCHANGED <<today, calendarPc, tableVars, downloadVars>>

\* calendar.js:157-159
refreshCalendar ==
    /\ calendarPc = "ready"
    /\ UNCHANGED <<currentYear, currentMonth>>
    /\ loadCalendarData
    /\ UNCHANGED <<today, calendarPc, navCount, navLog, tableVars, downloadVars>>

\* calendar.js:36-49, the response to the i-th request in flight arrives; the
\* backend answers with the projection of the month that was asked for
CalendarResponse(i, ok) ==
    /\ i \in 1..Len(calendarReqs)
    /\ calendarReqs' = SubSeq(calendarReqs, 1, i - 1)
                       \o SubSeq(calendarReqs, i + 1, Len(calendarReqs))
    /\ calendarData' = IF ok THEN <<calendarReqs[i]>> ELSE calendarData
    /\ calendarBody' = generateCalendar(currentYear, currentMonth, calendarData')
    /\ lastRequest' = IF i = Len(calendarReqs) /\ lastRequest = "pending"
                      THEN (IF ok THEN "ok" ELSE "failed")
                      ELSE lastRequest
    /\ UNCHANGED <<today, calendarPc, currentYear, currentMonth, navCount, navLog,
                   tableVars, downloadVars>>

\* the table page's script state, untouched by the calendar
TableIdle ==
    /\ InitClient
    /\ now = 1000
    /\ srvData = <<>>
    /\ srvVersion = 0 /\ srvLastExport = Null /\ srvExportVersion = 0
    /\ NoDownload

\* Navigation on the calendar page (specification CalendarSpec): the page is
\* opened in any month of this year
CalendarInit ==
    /\ TableIdle
    /\ \E m \in 1..12 : CalendarScript(Month(ThisMonth.year, m))

CalendarNext ==
    \/ CalendarDOMContentLoaded
    \/ \E direction \in {-1, 1} : navigateMonth(direction)
    \/ \E direction \in {-1, 1} : navigateYear(direction)
    \/ goToToday
    \/ refreshCalendar
    \/ \E i \in 1..MaxCalendarRequests, ok \in BOOLEAN : CalendarResponse(i, ok)

CalendarSpec == CalendarInit /\ [][CalendarNext]_vars

\* Rendering of every month (specification GridSpec): the page is opened in any
\* month of the years around this one and its first request is answered
GridInit ==
    /\ TableIdle
    /\ \E y \in (ThisMonth.year - MaxYearSpan)..(ThisMonth.year + MaxYearSpan),
          m \in 1..12 : CalendarScript(Month(y, m))

GridNext ==
    \/ CalendarDOMContentLoaded
    \/ \E ok \in BOOLEAN : CalendarResponse(1, ok)

GridSpec == GridInit /\ [][GridNext]_vars

-----------------------------------------------------------------------------
\* The file name of an export (app.js:582-596)

MaxParams == 2   \* filename parameters in one Content-Disposition header

JsNull == [null |-> TRUE, name |-> <<>>]
JsString(s) == [null |-> FALSE, name |-> s]

Semicolon == 59
Quote == 34
Percent == 37

\* "filename*=utf-8''" and "filename=", the literals of the regular expression
EncodedLiteral == <<102, 105, 108, 101, 110, 97, 109, 101, 42, 61,
                    117, 116, 102, 45, 56, 39, 39>>
PlainLiteral == <<102, 105, 108, 101, 110, 97, 109, 101, 61>>

\* a literal of a regular expression with the i flag matches s at position p
LiteralAt(s, p, literal) ==
    /\ p + Len(literal) - 1 <= Len(s)
    /\ ToLowerCase(SubSeq(s, p, p + Len(literal) - 1)) = literal

RECURSIVE RunEnd(_, _, _)
\* a greedy [^...]+ : the last position of the longest run from p on of characters
\* outside the set excluded (p - 1 when there is none)
RunEnd(s, p, excluded) ==
    IF p > Len(s) \/ s[p] \in excluded THEN p - 1 ELSE RunEnd(s, p + 1, excluded)

\* filename\*=UTF-8''([^;]+) at position p: group 1, or <<>> for no match
EncodedAt(s, p) ==
    LET from == p + Len(EncodedLiteral)
        to == RunEnd(s, from, {Semicolon})
    IN  IF LiteralAt(s, p, EncodedLiteral) /\ to >= from THEN SubSeq(s, from, to) ELSE <<>>

\* filename="?([^";]+)"? at position p: group 2, or <<>> for no match.  When the
\* quote is followed by no name character the expression backtracks to an empty
\* "? and fails on the quote itself.
PlainAt(s, p) ==
    LET q == p + Len(PlainLiteral)
        from == IF q <= Len(s) /\ s[q] = Quote THEN q + 1 ELSE q
        to == RunEnd(s, from, {Quote, Semicolon})
    IN  IF LiteralAt(s, p, PlainLiteral) /\ to >= from THEN SubSeq(s, from, to) ELSE <<>>

RECURSIVE RegexExec(_, _)
\* filenameRegex.exec(s) from position p on: the leftmost position at which one of
\* the two alternatives matches, the first alternative being tried first there
RegexExec(s, p) ==
    IF p > Len(s) THEN [matched |-> FALSE, encoded |-> <<>>, plain |-> <<>>]
    ELSE IF EncodedAt(s, p) # <<>>
         THEN [matched |-> TRUE, encoded |-> EncodedAt(s, p), plain |-> <<>>]
    ELSE IF PlainAt(s, p) # <<>>
         THEN [matched |-> TRUE, encoded |-> <<>>, plain |-> PlainAt(s, p)]
    ELSE RegexExec(s, p + 1)

\* the byte written as %XX at position p, or -1
EscapedByte(s, p) ==
    IF p + 2 <= Len(s) /\ s[p] = Percent
       /\ DigitValue(s[p + 1], 16) >= 0 /\ DigitValue(s[p + 2], 16) >= 0
    THEN DigitValue(s[p + 1], 16) * 16 + DigitValue(s[p + 2], 16)
    ELSE -1

\* the continuation byte (10xxxxxx) written as %XX at position p, or -1
Continuation(s, p) ==
    LET b == EscapedByte(s, p) IN IF b >= 128 /\ b <= 191 THEN b - 128 ELSE -1

\* the UTF-16 code units of a code point
CodeUnits(cp) ==
    IF cp < 65536 THEN <<cp>>
    ELSE <<55296 + ((cp - 65536) \div 1024), 56320 + ((cp - 65536) % 1024)>>

\* the UTF-8 sequence that starts with the escape at position p: its length in
\* bytes and its code point, or a length of 0 when it is malformed
Utf8At(s, p) ==
    LET b == EscapedByte(s, p)
        c1 == Continuation(s, p + 3)
        c2 == Continuation(s, p + 6)
        c3 == Continuation(s, p + 9)
        bad == [bytes |-> 0, cp |-> 0]
    IN  IF b < 0 THEN bad
        ELSE IF b < 128 THEN [bytes |-> 1, cp |-> b]
        ELSE IF b >= 194 /\ b <= 223
             THEN IF c1 >= 0 THEN [bytes |-> 2, cp |-> (b - 192) * 64 + c1] ELSE bad
        ELSE IF b >= 224 /\ b <= 239
             THEN LET cp == (b - 224) * 4096 + c1 * 64 + c2
                  IN  IF c1 >= 0 /\ c2 >= 0 /\ cp >= 2048 /\ ~(cp >= 55296 /\ cp <= 57343)
                      THEN [bytes |-> 3, cp |-> cp] ELSE bad
        ELSE IF b >= 240 /\ b <= 244
             THEN LET cp == (b - 240) * 262144 + c1 * 4096 + c2 * 64 + c3
                  IN  IF c1 >= 0 /\ c2 >= 0 /\ c3 >= 0 /\ cp >= 65536 /\ cp <= 1114111
                      THEN [bytes |-> 4, cp |-> cp] ELSE bad
        ELSE bad

RECURSIVE DecodeFrom(_, _, _)
\* decodeURIComponent from position p on, with the units decoded so far; the
\* result is <<units>>, or <<>> when a URIError is thrown
DecodeFrom(s, p, acc) ==
    IF p > Len(s) THEN <<acc>>
    ELSE IF s[p] # Percent THEN DecodeFrom(s, p + 1, Append(acc, s[p]))
    ELSE LET u == Utf8At(s, p)
         IN  IF u.bytes = 0 THEN <<>>
             ELSE DecodeFrom(s, p + 3 * u.bytes, acc \o CodeUnits(u.cp))

decodeURIComponent(s) == DecodeFrom(s, 1, <<>>)

\* app.js:582-596
extractFilenameFromDisposition(header) ==
    LET matches == RegexExec(header, 1)
    IN  IF ~matches.matched THEN JsNull
        ELSE IF matches.encoded # <<>>
             THEN (IF decodeURIComponent(matches.encoded) # <<>>
                   THEN JsString(decodeURIComponent(matches.encoded)[1])
                   ELSE JsString(matches.encoded))
        ELSE JsString(matches.plain)

\* The filename parameters a backend may send: a.x and b, quoted or not; and
\* 在.x, "a b", é.x and a truncated escape, with the charset in either case
PlainNames == {<<97, 46, 120>>, <<98>>}
EncodedNames == {<<37, 69, 53, 37, 57, 67, 37, 65, 56, 46, 120>>,   \* %E5%9C%A8.x
                 <<97, 37, 50, 48, 98>>,                            \* a%20b
                 <<37, 99, 51, 37, 97, 57, 46, 120>>,               \* %c3%a9.x
                 <<97, 37, 69>>}                                    \* a%E
Params ==
    [kind : {"plain"}, value : PlainNames, quoted : BOOLEAN, upper : {FALSE}]
    \cup [kind : {"encoded"}, value : EncodedNames, quoted : {FALSE}, upper : BOOLEAN]

\* filename="a.x", filename=a.x, filename*=UTF-8''..., filename*=utf-8''...
ParamText(param) ==
    IF param.kind = "plain"
    THEN PlainLiteral \o (IF param.quoted THEN <<Quote>> \o param.value \o <<Quote>>
                          ELSE param.value)
    ELSE SubSeq(EncodedLiteral, 1, 10)
         \o (IF param.upper THEN <<85, 84, 70>> ELSE <<117, 116, 102>>)
         \o SubSeq(EncodedLiteral, 14, 17) \o param.value

RECURSIVE JoinParams(_)
JoinParams(params) ==
    IF params = <<>> THEN <<>>
    ELSE <<Semicolon, 32>> \o ParamText(Head(params)) \o JoinParams(Tail(params))

\* attachment; p1; p2
HeaderText(params) == <<97, 116, 116, 97, 99, 104, 109, 101, 110, 116>> \o JoinParams(params)

\* app.js:359-360, the export response carries the header; the function is applied
ExtractFilename ==
    /\ filename = <<>>
    /\ filename' = <<extractFilenameFromDisposition(disposition)>>
    /\ UNCHANGED <<headerParams, disposition, tableVars, calendarVars>>

\* Every header of at most MaxParams filename parameters (specification DispositionSpec)
DispositionInit ==
    /\ InitClient
    /\ now = 1000
    /\ srvData = <<>>
    /\ srvVersion = 0 /\ srvLastExport = Null /\ srvExportVersion = 0
    /\ CalendarScript(ThisMonth)
    /\ headerParams \in SeqsOver(Params, MaxParams)
    /\ disposition = HeaderText(headerParams)
    /\ filename = <<>>

DispositionNext == ExtractFilename

DispositionSpec == DispositionInit /\ [][DispositionNext]_vars


-----------------------------------------------------------------------------
\* Properties of the table view (specification Spec)

IsSortOp(op) == op \in {"sortTable", "sortTableAgain"}

\* C4: sortTable never changes the Dataset: the order and contents of allData
\* after sortTable(column) are those before it.  (Only sortTable changes
\* currentSort, and every call of it does.)
C4_SortKeepsDataset == [][currentSort' # currentSort => allData' = allData]_vars

\* the records the current search text lets through (an empty text lets all through)
SearchMatches(row) ==
    LET searchText == Trim(ToLowerCase(searchInput))
    IN  searchText = <<>> \/ SearchPredicate(searchText, row)

\* C5: the visible records are exactly the records of allData that satisfy both
\* the active named filter and the current search text.
C5_VisibleIsFilterAndSearch ==
    SeqToSet(filteredData) =
        {row \in SeqToSet(allData) : FilterPredicate(currentFilter, row) /\ SearchMatches(row)}

\* C6: what filterData(name) shows depends only on the Dataset and the name, whatever
\* was filtered, searched or sorted before; and filterData('all'), filterData(f),
\* filterData('all') in a row show the ids of the Dataset they started from.
C6_FilterDependsOnDatasetOnly ==
    /\ lastOp = "filterData" =>
          SeqToSet(filteredData) =
              {row \in SeqToSet(allData) : FilterPredicate(currentFilter, row)}
    /\ trip.stage = 3 => Ids(filteredData) = trip.ids

\* C6 witness: a round trip over two records has been completed
C6_Witness == trip.stage = 3 /\ Cardinality(trip.ids) >= 2 /\ lastOp = "filterData"

PositionIn(s, x) == CHOOSE i \in 1..Len(s) : s[i] = x
SameKey(a, b, column) == Compare(a, b, column, TRUE) = 0

\* a step that is a sortTable call right after a sortTable call on the same column
SecondSortStep ==
    lastOp' = "sortTableAgain" /\ (lastOp = "sortTable" \/ currentSort' # currentSort)

\* C7 as claimed: the second of two sortTable(c) calls in a row yields the exact
\* reverse of what the first one yielded, ties included.
C7_SecondSortReverses ==
    [][SecondSortStep
          => filteredData' = Reverse(filteredData)]_vars

\* C7 amended: the second call orders the records the other way round: two records
\* with different values in the column swap their relative order, two records with
\* equal values keep it; so the result is the exact reverse when no two visible
\* records have equal values.
C7_SecondSortTogglesOrder ==
    [][SecondSortStep
          => /\ Len(filteredData') = Len(filteredData)
             /\ SeqToSet(filteredData') = SeqToSet(filteredData)
             /\ \A i, j \in 1..Len(filteredData) :
                   i < j =>
                     ((PositionIn(filteredData', filteredData[i])
                          < PositionIn(filteredData', filteredData[j]))
                      <=> SameKey(filteredData[i], filteredData[j], currentSort.column))
             /\ ((\A i, j \in 1..Len(filteredData) :
                     i # j => ~SameKey(filteredData[i], filteredData[j], currentSort.column))
                 => filteredData' = Reverse(filteredData))]_vars

\* C7 witness: a second sort in a row has run over records that tie in the column
C7_Witness ==
    /\ lastOp = "sortTableAgain"
    /\ \E i, j \in 1..Len(filteredData) :
          i < j /\ SameKey(filteredData[i], filteredData[j], currentSort.column)

\* C8: the 'expired' filter never shows a record whose days until expiry are null,
\* and after an ascending sort on the numeric days column no record with a value
\* comes after a record whose value is null.
C8_NullExcludedAndLast ==
    /\ (lastOp = "filterData" /\ currentFilter = "expired")
          => \A i \in 1..Len(filteredData) : ~IsNull(filteredData[i].manryoMadeNissu)
    /\ (IsSortOp(lastOp) /\ currentSort.column = "manryoNissuValue" /\ currentSort.ascending)
          => \A i, j \in 1..Len(filteredData) :
                (i < j /\ IsNull(filteredData[i].manryoNissuValue))
                    => IsNull(filteredData[j].manryoNissuValue)

\* C8 witness: an ascending numeric sort has run over a null and a non-null value
C8_Witness ==
    /\ IsSortOp(lastOp) /\ currentSort.column = "manryoNissuValue" /\ currentSort.ascending
    /\ \E i, j \in 1..Len(filteredData) :
          IsNull(filteredData[i].manryoNissuValue) /\ ~IsNull(filteredData[j].manryoNissuValue)

\* the tier-1 cumulative check of section 4.1
Tier1CumulativeCheck(row) ==
    /\ IsTier1(row.zairyuShikaku)
    /\ ~IsNull(row.manryoNissuValue)
    /\ (Val(row.manryoNissuValue) + 184) > 1826

\* C9: the 'skill1_limit' filter shows exactly the records for which the tier-1
\* cumulative check is true.
C9_Skill1LimitIsTier1Check ==
    (lastOp = "filterData" /\ currentFilter = "skill1_limit")
        => SeqToSet(filteredData) = {row \in SeqToSet(allData) : Tier1CumulativeCheck(row)}

-----------------------------------------------------------------------------
\* Properties of the tracker (specification TrackSpec)

\* C1: hasUnsavedChanges is never false while a mutation whose handler has
\* completed is newer than the data the last successful export captured.
C1_CleanOnlyWhenExported == hasUnsavedChanges \/ mutDoneVersion <= srvExportVersion

\* C2: when handleFormSubmit or deleteRow completes after a 2xx response, the
\* tracker is Dirty and lastChangeTimestamp is the current time, whatever became
\* of the two reloads.
C2_MutationLeavesDirty ==
    [][(\/ (submitPc # "idle" /\ submitReq.ok /\ submitPc' = "idle")
        \/ (deletePc # "idle" /\ deleteReq.ok /\ deletePc' = "idle"))
          => (hasUnsavedChanges' /\ lastChangeTimestamp' = Num(now'))]_vars

\* C2 witness: a mutation has completed although its reload of the data failed
C2_Witness ==
    /\ mutDoneVersion >= 1 /\ submitPc = "idle" /\ deletePc = "idle"
    /\ lastSummary = "none" /\ hasUnsavedChanges /\ lastChangeTimestamp = Num(now)
    /\ allData # srvData

\* a step in which loadSummary, called on its own, received a summary
SummaryReceived ==
    /\ lastSummary' \in {"dirty", "clean"}
    /\ \/ (pagePc.summary = "pending" /\ pagePc'.summary = "done")
       \/ (refreshPc = "summary" /\ refreshPc' = "idle")
       \/ (exportPc = "summary" /\ exportPc' = "idle")

\* C3: a summary received while Dirty makes the tracker Clean exactly when its
\* export time is present and not older than lastChangeTimestamp, and leaves it
\* as it is otherwise; a summary received while Clean leaves it Clean.
C3_SummaryClearsIffCovered ==
    [][SummaryReceived =>
          IF hasUnsavedChanges
          THEN LET covered == /\ ~IsNull(srvLastExport)
                              /\ Val(srvLastExport) * 1000 >= Val(lastChangeTimestamp)
               IN  /\ (~hasUnsavedChanges' /\ lastChangeTimestamp' = Null) <=> covered
                   /\ ~covered => (hasUnsavedChanges'
                                   /\ lastChangeTimestamp' = lastChangeTimestamp)
          ELSE ~hasUnsavedChanges' /\ lastChangeTimestamp' = Null]_vars

\* C3 witness: the tracker's last event is a summary received while Dirty, and the
\* tracker is Clean
C3_Witness == lastSummary = "dirty" /\ ~hasUnsavedChanges /\ mutDoneVersion >= 1

-----------------------------------------------------------------------------
\* Properties of the form validation (specification FormSpec)

IsNonNegativeInteger(str) ==
    str # <<>> /\ \A i \in 1..Len(str) : str[i] >= 48 /\ str[i] <= 57

\* C10: no add / update request goes out for a tier-1 status category unless
\* the 既満了日数 input is a non-negative integer.
C10_Tier1RequestHasInteger ==
    (submitPc = "request" /\ IsTier1(submitReq.zairyuShikaku))
        => IsNonNegativeInteger(submitReq.kiManryoDays)

-----------------------------------------------------------------------------
\* C11  Failed requests

\* a handler sends its request in this step
RequestSent ==
    \/ refreshPc = "idle" /\ refreshPc' # "idle"
    \/ uploadPc = "idle" /\ uploadPc' # "idle"
    \/ submitPc = "idle" /\ submitPc' # "idle"
    \/ deletePc = "idle" /\ deletePc' # "idle"
    \/ exportPc = "idle" /\ exportPc' # "idle"

\* C11: the step in which a handler sends its request for a load, an upload, an
\* add or update, a delete or an export, and the step in which it handles the
\* failure of that request (fetch rejected or non-2xx), both leave allData,
\* filteredData, currentFilter, currentSort, hasUnsavedChanges and
\* lastChangeTimestamp as they were; in particular the Dataset is not emptied.
C11_FailedRequestKeepsState ==
    [][(RequestSent \/ failure' # "none") =>
           UNCHANGED <<allData, filteredData, currentFilter, currentSort,
                       hasUnsavedChanges, lastChangeTimestamp>>]_vars

\* C11 witness: a load has failed while a filtered, sorted, unsaved table was shown
C11_Witness ==
    /\ failure = "load"
    /\ allData # <<>> /\ currentFilter = "expired" /\ currentSort.column # "none"
    /\ hasUnsavedChanges

-----------------------------------------------------------------------------
\* C12  Month navigation

\* the month displayed now
Displayed == Month(currentYear, currentMonth)

LastNav == navLog[Len(navLog)]

\* C12: currentMonth is always one of 1..12; navigateMonth(+1) from December
\* gives January of the next year, navigateMonth(-1) from January gives December
\* of the year before, and navigateMonth(+1) directly followed by
\* navigateMonth(-1) shows the month it started from.
C12_MonthStaysInRange ==
    /\ currentMonth \in 1..12
    /\ navLog # <<>> /\ LastNav.op = "navigateMonth" =>
          /\ LastNav.direction = 1 /\ LastNav.from.month = 12 =>
                Displayed = Month(LastNav.from.year + 1, 1)
          /\ LastNav.direction = -1 /\ LastNav.from.month = 1 =>
                Displayed = Month(LastNav.from.year - 1, 12)
    /\ Len(navLog) = 2 /\ navLog[1].op = "navigateMonth" /\ navLog[1].direction = 1
          /\ navLog[2].op = "navigateMonth" /\ navLog[2].direction = -1 =>
          Displayed = navLog[1].from

\* C12 witness: from December, navigateMonth(+1) and then navigateMonth(-1)
C12_Witness ==
    /\ Len(navLog) = 2
    /\ navLog[1] = [op |-> "navigateMonth", direction |-> 1,
                    from |-> Month(ThisMonth.year, 12)]
    /\ navLog[2].op = "navigateMonth" /\ navLog[2].direction = -1

-----------------------------------------------------------------------------
\* C14  The day cells of a month

CurrentCells == SelectSeq(calendarBody, LAMBDA cell : cell.kind = "current")

\* C14: the current-month cells of a rendered calendar carry the day numbers
\* 1..daysInMonth, each once and in increasing order, every cell after the one
\* of the last day is an other-month cell, and the grid ends with the row that
\* holds the last day.
C14_EachDayRenderedOnce ==
    calendarBody # <<>> =>
        LET daysInMonth == DaysInMonth(currentYear, currentMonth)
            lastCell == FirstDay(currentYear, currentMonth) + daysInMonth
        IN  /\ Len(CurrentCells) = daysInMonth
            /\ \A k \in 1..Len(CurrentCells) : CurrentCells[k].day = k
            /\ \A k \in 1..Len(calendarBody) :
                  k > lastCell => calendarBody[k].kind = "other-month"
            /\ Len(calendarBody) = 7 * ((lastCell + 6) \div 7)

-----------------------------------------------------------------------------
\* C15  Late calendar responses

\* C15: once no /api/calendar request is in flight and the request issued last
\* was answered successfully, calendarData is the projection of the displayed
\* month.
C15_SettledDataIsDisplayedMonth ==
    calendarPc = "ready" /\ calendarReqs = <<>> /\ lastRequest = "ok" =>
        calendarData = <<Displayed>>

-----------------------------------------------------------------------------
\* C13  The preferred file name

EncodedParams == SelectSeq(headerParams, LAMBDA param : param.kind = "encoded")
PlainParams == SelectSeq(headerParams, LAMBDA param : param.kind = "plain")

\* the name a filename* parameter stands for
NameOf(param) ==
    IF decodeURIComponent(param.value) # <<>> THEN decodeURIComponent(param.value)[1]
    ELSE param.value

\* C13: for a header with a filename* parameter and a plain filename parameter,
\* in either order, the function returns the percent-decoded value of filename*;
\* with plain parameters only it returns the plain name, and with no filename
\* parameter it returns null.
C13_EncodedFormPreferred ==
    filename # <<>> =>
        IF EncodedParams # <<>>
        THEN filename[1] = JsString(NameOf(EncodedParams[1]))
        ELSE IF PlainParams # <<>>
        THEN filename[1] = JsString(PlainParams[1].value)
        ELSE filename[1] = JsNull

====
